---- MODULE Spec2Model ----
(***************************************************************************)
(* Ledger and reconciliation engine of cecurepay-api.                      *)
(*                                                                         *)
(* The durable store is the users collection (one balance per user), the   *)
(* transactions collection (unique index on reference) and the             *)
(* transaction-pin collection.  Every HTTP request or webhook delivery is  *)
(* a process in one of the request slots; a handler advances from one      *)
(* database round trip (await) to the next, so that the reads and writes   *)
(* of concurrent requests interleave as they do on the server.  A mongoose *)
(* document is a private copy: save() writes the copy's modified paths     *)
(* back with $set, whatever the stored value has become in between.        *)
(***************************************************************************)
EXTENDS Integers, FiniteSets, Sequences, TLC

\* ------------------------------------------------------------------ bounds
\* Requests (money-movement requests and webhook deliveries) handled in a run.
MaxReqs == 3

Users == {"A", "B"}
\* Request slots: requests handled at the same time.
Procs == {1, 2}
\* Amounts a request body may carry; isNumeric() accepts a sign.
Amounts == {-50, 50, 100}
Pins == {"1111", "2222"}
BaseRefs == {"R1", "R2", "R3"}

NoUser == "none"
NoRef == "none"
NoPin == <<"unset">>

\* ------------------------------------------------------- program constants
\* const fee = 25 in /transfer, /bank-transfer and /withdraw.
Fee == 25
\* amount * 100 (naira to kobo) and amount / 100 (kobo to naira).
KoboPerNaira == 100

\* ------------------------------------------------------------------- state
VARIABLES
    balance,    \* User.balance, by user id
    txs,        \* the transactions collection: a set of documents
    pins,       \* TransactionPin.pinHash, by user id (NoPin: no document)
    proc,       \* the request being handled in each slot
    nreq,       \* requests started so far
    applied,    \* history: balance writes made to settle or compensate a reference
    unverified  \* history: slots whose webhook request came with a signature that
                \* is not the keyed hash of its raw bytes

vars == <<balance, txs, pins, proc, nreq, applied, unverified>>

\* `${reference}-RCV`
Rcv(r) == r \o "-RCV"
AllRefs == BaseRefs \cup {Rcv(r) : r \in BaseRefs}

\* TransactionSchema.transactionType enum
TransactionTypeEnum == {"send", "receive", "deposit", "withdraw", "wishlist"}

\* A status enum that would admit the reversal of a record.
StatusEnumWithReversed == {"pending", "successful", "failed", "declined", "reversed"}

\* A status enum that would admit the cancellation of a record.
StatusEnumWithCancelled == {"pending", "successful", "failed", "declined", "cancelled"}

\* TransactionSchema.status enum
StatusEnum == {"pending", "successful", "failed", "declined"}

\* Schema validation run by Document.save(): enum validators of the two paths.
Validates(t) ==
    /\ t.transactionType \in TransactionTypeEnum
    /\ t.status \in StatusEnum

\* A collection without the index: every insert is admitted.
UniqueRefNone(T, r) == TRUE

\* The unique index on reference: an insert with a stored reference is refused.
UniqueRef(T, r) == \A t \in T : t.reference # r

\* new Transaction({...})
NewTx(uid, type, amt, fee, status, rid, ref) ==
    [reference |-> ref, userId |-> uid, transactionType |-> type,
     amount |-> amt, fee |-> fee, status |-> status, recipientId |-> rid,
     stripePaymentIntentId |-> NoRef]

\* save() of a new document succeeds when it validates and the index admits it.
CanInsert(T, t) == Validates(t) /\ UniqueRef(T, t.reference)

\* Transaction.findOne({ reference }) finds a document.
Exists(r) == \E t \in txs : t.reference = r

\* The document Transaction.findOne({ reference }) returns.
TxOf(r) == CHOOSE t \in txs : t.reference = r

\* An update that would remove the document instead of setting its status.
SetStatusByRemoval(T, r, s) == {t \in T : t.reference # r}

\* save() of a loaded transaction whose status path was modified: $set on the
\* stored document (the unique reference stands for its _id).
SetStatus(T, r, s) ==
    {IF t.reference = r THEN [t EXCEPT !.status = s] ELSE t : t \in T}

\* A reference no stored document carries, no request in flight was given and
\* no balance was written for (uuidv4 by the server, transfer_code and reference
\* by the gateway).
FreshRefs == {r \in BaseRefs :
                /\ UniqueRef(txs, r) /\ UniqueRef(txs, Rcv(r))
                /\ applied[r] = 0
                /\ \A q \in Procs : proc[q].pc = "done" \/ proc[q].ref # r}
HasFresh == FreshRefs # {}
FreshRef == CHOOSE r \in FreshRefs : TRUE

\* bcrypt.hash(pin, salt): one way, never the plaintext.
Hash(pin) == <<"bcrypt", pin>>
\* A comparison that takes every candidate for the hashed PIN.
comparePinAny(candidatePin, pinHash) == TRUE

\* TransactionPinSchema.methods.comparePin
comparePin(candidatePin, pinHash) == pinHash = Hash(candidatePin)

\* ------------------------------------------------------------ request slots
\* A slot holds the request: its route, the caller (user), the body (amount,
\* ref, rcpt) and the handler's local documents (ubal, rbal: the balances of the
\* loaded user documents).  History kept for the properties: st0 is the status
\* the handler found on the record, raced the cost of a debit that another
\* request committed on the same account after this request had read the same
\* balance, rival that a request for the same reference was in flight with it,
\* pinOk that the request passed the PIN guard.  intent is the paymentIntentId of
\* a confirm-payment request, pin the PIN in the body of a debit request, gw the
\* status of the charge in the gateway's response (data.status), caller the
\* authenticated user of a confirm request (req.user.id) while it is in flight.
IdleProc ==
    [pc |-> "done", route |-> "none", user |-> NoUser, amount |-> 0,
     ref |-> NoRef, rcpt |-> NoUser, ubal |-> 0, rbal |-> 0,
     res |-> "none", st0 |-> "none", raced |-> 0, rival |-> FALSE,
     pinOk |-> FALSE, intent |-> NoRef, pin |-> "none", gw |-> "none",
     caller |-> NoUser]

\* A slot is free once its request has been answered; a new request takes the
\* first free slot (the slots are interchangeable).
Free(p) ==
    /\ proc[p].pc = "done" /\ nreq < MaxReqs
    /\ \A q \in Procs : q < p => proc[q].pc # "done"

\* The request of a slot begins: route, caller and body.
Begin(route, u, a, ref, rid) ==
    [IdleProc EXCEPT !.route = route, !.user = u, !.amount = a, !.ref = ref,
                     !.rcpt = rid, !.pc = "start"]

\* The response is sent with result res; the slot keeps route, reference, result
\* (and the history st0, rival, intent, gw).
Answer(r, res) ==
    [IdleProc EXCEPT !.route = r.route, !.ref = r.ref, !.res = res,
                     !.st0 = r.st0, !.rival = r.rival, !.intent = r.intent,
                     !.gw = r.gw]

\* The request is refused for want of funds or of a counterparty; the slot keeps
\* the caller, the amount and the PIN as well (history).
Refuse(r, res) ==
    [Answer(r, res) EXCEPT !.user = r.user, !.amount = r.amount, !.pin = r.pin]

\* The request is refused by the PIN guard; the slot keeps the caller and, when
\* the PIN of the body was compared with a stored hash, that PIN (history).
Denied(r, res) ==
    [Answer(r, res) EXCEPT !.user = r.user,
                           !.pin = IF res = "InvalidPin" THEN r.pin ELSE "none"]

\* The answer to a set-PIN or verify-pin request; the slot keeps the caller and
\* the PIN of the body (history).
AnswerPin(r, res) == [Answer(r, res) EXCEPT !.user = r.user, !.pin = r.pin]

InFlight(p) == proc[p].pc # "done"

DebitRoutes ==
    {"transfer", "bankTransfer", "withdraw", "paymentsWithdraw", "paymentsTransfer"}

\* History only: request p writes a debit of cost on account u; every other
\* request that holds the same balance of u, read before this write, is marked.
MarkRaced(P, p, u, cost) ==
    [q \in Procs |->
        IF /\ q # p /\ P[q].pc \in {"commit", "saveUser"}
           /\ P[q].route \in DebitRoutes /\ P[q].user = u
           /\ P[q].ubal = proc[p].ubal /\ balance[u] = proc[p].ubal
        THEN [P[q] EXCEPT !.raced = cost]
        ELSE P[q]]

\* History only: one more balance write on behalf of reference r.
Count(r) == [applied EXCEPT ![r] = @ + 1]

PcSet == {"done", "commit", "saveUser", "saveRecipient", "saveTx", "saveRcvTx",
          "readUser", "readRecipient", "savePin"}

TypeOK ==
    /\ balance \in [Users -> Int]
    /\ pins \in [Users -> {NoPin} \cup {Hash(x) : x \in Pins}]
    /\ nreq \in 0..MaxReqs
    /\ applied \in [AllRefs -> 0..MaxReqs]
    /\ unverified \subseteq Procs
    /\ \A t \in txs : t.reference \in AllRefs /\ t.userId \in Users
    /\ \A p \in Procs : proc[p].pc \in PcSet

Init ==
    /\ balance = [u \in Users |-> 0]
    /\ txs = {}
    /\ pins = [u \in Users |-> NoPin]
    /\ proc = [p \in Procs |-> IdleProc]
    /\ nreq = 0
    /\ applied = [r \in AllRefs |-> 0]
    /\ unverified = {}

\* ------------------------------------------------- POST api/users/transaction-pin
setTransactionPin(u, pin) ==
    /\ pins[u] # Hash(pin)
    /\ pins' = [pins EXCEPT ![u] = Hash(pin)]
    /\ UNCHANGED <<balance, txs, proc, nreq, applied>>

\* The same route as a request in a slot: the document of the caller is looked
\* up, then saved (the pre-save hook hashes the modified pinHash).  st0 tells
\* whether a document was found ("rotate") or a new one is built ("create"); the
\* insert of a second document for one user is refused by the unique index on
\* userId.
transactionPin(p) ==
    IF proc[p].pc = "done"
    THEN \E u \in Users, pin \in Pins :
           /\ Free(p)
           /\ nreq' = nreq + 1
           /\ proc' = [proc EXCEPT ![p] =
                 [Begin("transactionPin", u, 0, NoRef, NoUser)
                    EXCEPT !.pc = "savePin", !.pin = pin,
                           !.st0 = IF pins[u] = NoPin THEN "create" ELSE "rotate"]]
           /\ UNCHANGED <<balance, txs, pins, applied>>
    ELSE /\ proc[p].route = "transactionPin" /\ proc[p].pc = "savePin"
         /\ LET r == proc[p]
            IN IF r.st0 = "create" /\ pins[r.user] # NoPin
               THEN /\ proc' = [proc EXCEPT ![p] = AnswerPin(r, "ServerError")]
                    /\ pins' = pins
               ELSE /\ proc' = [proc EXCEPT ![p] = AnswerPin(r, "ok")]
                    /\ pins' = [pins EXCEPT ![r.user] = Hash(r.pin)]
         /\ UNCHANGED <<balance, txs, nreq, applied>>

\* POST api/users/verify-pin
verifyPin(p) ==
    \E u \in Users, pin \in Pins :
       LET r == [Begin("verifyPin", u, 0, NoRef, NoUser) EXCEPT !.pin = pin]
       IN /\ Free(p)
          /\ nreq' = nreq + 1
          /\ proc' = [proc EXCEPT ![p] =
                IF pins[u] = NoPin THEN AnswerPin(r, "PinNotSet")
                ELSE IF comparePin(pin, pins[u]) THEN AnswerPin(r, "success")
                ELSE AnswerPin(r, "failure")]
          /\ UNCHANGED <<balance, txs, pins, applied>>

\* ------------------------------------------------- routes/transactions.js
\* A guard that takes every request for one with no PIN set.
VerifyPinNotSet(u, pin) == "PinNotSet"

\* The PIN guard of /transfer, /bank-transfer and /withdraw: "ok" or the error.
VerifyPin(u, pin) ==
    IF pins[u] = NoPin THEN "PinNotSet"
    ELSE IF ~comparePin(pin, pins[u]) THEN "InvalidPin"
    ELSE "ok"

\* A check that finds every balance sufficient.
InsufficientNever(bal, cost) == FALSE

\* if (sender.balance < Number.parseFloat(amount) + fee)
Insufficient(bal, cost) == bal < cost

\* POST api/transactions/transfer.  The documents are read outside the
\* session; the two balance writes and the two inserts commit together.
transfer(p) ==
    IF proc[p].pc = "done"
    THEN \E u \in Users, rid \in Users \cup {NoUser}, a \in Amounts, pin \in Pins :
           LET r == [Begin("transfer", u, a, NoRef, rid) EXCEPT !.pin = pin]
               g == VerifyPin(u, pin)
           IN /\ Free(p)
              /\ nreq' = nreq + 1
              /\ proc' = [proc EXCEPT ![p] =
                    IF g # "ok" THEN Denied(r, g)
                    ELSE IF Insufficient(balance[u], a + Fee)
                         THEN Refuse(r, "InsufficientBalance")
                    ELSE IF rid = NoUser
                         THEN Refuse(r, "RecipientNotFound")
                    ELSE [r EXCEPT !.pc = "commit", !.ubal = balance[u],
                                   !.rbal = balance[rid], !.pinOk = TRUE]]
              /\ UNCHANGED <<balance, txs, pins, applied>>
    ELSE /\ proc[p].route = "transfer" /\ proc[p].pc = "commit"
         /\ HasFresh
         /\ LET r == proc[p]
                ref == FreshRef
                st == NewTx(r.user, "send", r.amount, Fee, "successful",
                            r.rcpt, ref)
                rt == NewTx(r.rcpt, "receive", r.amount, 0, "successful",
                            r.user, Rcv(ref))
            IN /\ balance' = [[balance EXCEPT ![r.user] = r.ubal - (r.amount + Fee)]
                                       EXCEPT ![r.rcpt] = r.rbal + r.amount]
               /\ txs' = txs \cup {st, rt}
               /\ proc' = MarkRaced(
                     [proc EXCEPT ![p] = Answer([r EXCEPT !.ref = ref], "ok")],
                     p, r.user, r.amount + Fee)
         /\ UNCHANGED <<pins, nreq, applied>>

\* POST api/transactions/bank-transfer and POST api/transactions/withdraw: the
\* same handler but for the transactionType of the record.
DebitInSession(p, route, type) ==
    IF proc[p].pc = "done"
    THEN \E u \in Users, a \in Amounts, pin \in Pins :
           LET r == [Begin(route, u, a, NoRef, NoUser) EXCEPT !.pin = pin]
               g == VerifyPin(u, pin)
           IN /\ Free(p)
              /\ nreq' = nreq + 1
              /\ proc' = [proc EXCEPT ![p] =
                    IF g # "ok" THEN Denied(r, g)
                    ELSE IF Insufficient(balance[u], a + Fee)
                         THEN Refuse(r, "InsufficientBalance")
                    ELSE [r EXCEPT !.pc = "commit", !.ubal = balance[u],
                                   !.pinOk = TRUE]]
              /\ UNCHANGED <<balance, txs, pins, applied>>
    ELSE /\ proc[p].route = route /\ proc[p].pc = "commit"
         /\ HasFresh
         /\ LET r == proc[p]
                ref == FreshRef
            IN /\ balance' = [balance EXCEPT ![r.user] = r.ubal - (r.amount + Fee)]
               /\ txs' = txs \cup {NewTx(r.user, type, r.amount, Fee,
                                         "successful", NoUser, ref)}
               /\ proc' = MarkRaced(
                     [proc EXCEPT ![p] = Answer([r EXCEPT !.ref = ref], "ok")],
                     p, r.user, r.amount + Fee)
         /\ UNCHANGED <<pins, nreq, applied>>

bankTransfer(p) == DebitInSession(p, "bankTransfer", "send")

withdraw(p) == DebitInSession(p, "withdraw", "withdraw")

\* POST api/transactions/deposit: credits the amount of the body.
deposit(p) ==
    IF proc[p].pc = "done"
    THEN \E u \in Users, a \in Amounts :
           /\ Free(p)
           /\ nreq' = nreq + 1
           /\ proc' = [proc EXCEPT ![p] =
                 [Begin("deposit", u, a, NoRef, NoUser)
                    EXCEPT !.pc = "commit", !.ubal = balance[u]]]
           /\ UNCHANGED <<balance, txs, pins, applied>>
    ELSE /\ proc[p].route = "deposit" /\ proc[p].pc = "commit"
         /\ HasFresh
         /\ LET r == proc[p]
                ref == FreshRef
            IN /\ balance' = [balance EXCEPT ![r.user] = r.ubal + r.amount]
               /\ txs' = txs \cup {NewTx(r.user, "deposit", r.amount, 0,
                                         "successful", NoUser, ref)}
               /\ proc' = [proc EXCEPT ![p] = Answer([r EXCEPT !.ref = ref], "ok")]
         /\ UNCHANGED <<pins, nreq, applied>>

\* POST api/transactions/confirm-deposit: reference and amount from the body,
\* here a caller of callers, an amount of amounts and a reference of refs.
ConfirmDeposit(p, callers, amounts, refs) ==
    IF proc[p].pc = "done"
    THEN \E u \in callers, a \in amounts, ref \in refs :
           LET r == Begin("confirmDeposit", u, a, ref, NoUser)
           IN /\ Free(p)
              /\ nreq' = nreq + 1
              /\ proc' = [proc EXCEPT ![p] =
                    IF Exists(ref) THEN Answer(r, "AlreadyProcessed")
                    ELSE [r EXCEPT !.pc = "commit", !.ubal = balance[u]]]
              /\ UNCHANGED <<balance, txs, pins, applied>>
    ELSE /\ proc[p].route = "confirmDeposit" /\ proc[p].pc = "commit"
         /\ LET r == proc[p]
                t == NewTx(r.user, "deposit", r.amount, 0, "successful",
                           NoUser, r.ref)
            IN IF CanInsert(txs, t)
               THEN /\ balance' = [balance EXCEPT ![r.user] = r.ubal + r.amount]
                    /\ txs' = txs \cup {t}
                    /\ applied' = Count(r.ref)
                    /\ proc' = [proc EXCEPT ![p] = Answer(r, "ok")]
               ELSE \* duplicate key: the catch block aborts the session
                    /\ proc' = [proc EXCEPT ![p] = Answer(r, "ServerError")]
                    /\ UNCHANGED <<balance, txs, applied>>
         /\ UNCHANGED <<pins, nreq>>

confirmDeposit(p) == ConfirmDeposit(p, Users, Amounts, BaseRefs)

SessionRoutes == {"transfer", "bankTransfer", "withdraw", "deposit", "confirmDeposit"}

\* catch (err) { await session.abortTransaction() ... }: a write of the session
\* fails (write conflict, lost connection) and nothing of it is applied.
abortTransaction(p) ==
    /\ proc[p].route \in SessionRoutes /\ proc[p].pc = "commit"
    /\ proc' = [proc EXCEPT ![p] = Answer(proc[p], "ServerError")]
    /\ UNCHANGED <<balance, txs, pins, nreq, applied>>

\* ---------------------------------- routes/transactions.js, bank-transfer deposits
\* POST api/payments/bank-transfer/initiate: a pending deposit record under the
\* caller's reference.
bankTransferInitiate(p) ==
    \E u \in Users, a \in Amounts, ref \in BaseRefs :
       LET r == Begin("bankTransferInitiate", u, a, ref, NoUser)
           t == NewTx(u, "deposit", a, 0, "pending", NoUser, ref)
       IN /\ Free(p)
          /\ nreq' = nreq + 1
          /\ IF a <= 0
             THEN /\ proc' = [proc EXCEPT ![p] = Answer(r, "InvalidAmount")]
                  /\ txs' = txs
             ELSE IF CanInsert(txs, t)
             THEN /\ proc' = [proc EXCEPT ![p] = Answer(r, "ok")]
                  /\ txs' = txs \cup {t}
             ELSE /\ proc' = [proc EXCEPT ![p] = Answer(r, "ServerError")]
                  /\ txs' = txs
          /\ UNCHANGED <<balance, pins, applied>>

\* History only: the request of slot p, for reference ref, begins while a request
\* of route other for the same reference is in flight: both are marked.
MarkRival(P, p, ref, other) ==
    [q \in Procs |->
        IF \E o \in Procs : /\ o # p /\ P[o].pc # "done" /\ P[o].route = other
                            /\ P[o].ref = ref /\ q \in {o, p}
        THEN [P[q] EXCEPT !.rival = TRUE]
        ELSE P[q]]

\* A lookup of the pending deposit by reference alone, whoever owns it.
PendingDepositOfAnyone(ref, u) ==
    \E t \in txs : /\ t.reference = ref
                   /\ t.transactionType = "deposit" /\ t.status = "pending"

\* Transaction.findOne({ reference, userId, transactionType: "deposit", status: "pending" })
PendingDepositOf(ref, u) ==
    \E t \in txs : /\ t.reference = ref /\ t.userId = u
                   /\ t.transactionType = "deposit" /\ t.status = "pending"

\* POST api/payments/bank-transfer/cancel.  A request answered 404 keeps its
\* caller in the slot (history).
bankTransferCancel(p) ==
    IF proc[p].pc = "done"
    THEN \E u \in Users, ref \in BaseRefs :
           LET r == Begin("bankTransferCancel", u, 0, ref, NoUser)
           IN /\ Free(p)
              /\ nreq' = nreq + 1
              /\ proc' =
                    IF ~PendingDepositOf(ref, u)
                    THEN [proc EXCEPT ![p] = [Answer(r, "NotFound") EXCEPT !.user = u]]
                    ELSE MarkRival([proc EXCEPT ![p] = [r EXCEPT !.pc = "saveTx"]],
                                   p, ref, "bankTransferConfirm")
              /\ UNCHANGED <<balance, txs, pins, applied>>
    ELSE /\ proc[p].route = "bankTransferCancel" /\ proc[p].pc = "saveTx"
         /\ IF "cancelled" \in StatusEnum
            THEN /\ txs' = SetStatus(txs, proc[p].ref, "cancelled")
                 /\ proc' = [proc EXCEPT ![p] = Answer(proc[p], "ok")]
            ELSE \* ValidationError: the catch block answers 500
                 /\ txs' = txs
                 /\ proc' = [proc EXCEPT ![p] = Answer(proc[p], "ServerError")]
         /\ UNCHANGED <<balance, pins, nreq, applied>>

\* The accounts with an administrator role: the User schema has no role path and
\* the auth middleware is the one of every private route, so there is none.
Admins == {}

\* POST api/payments/bank-transfer/confirm: any authenticated caller.  The
\* pending record is found, then its owner is read, then the record and the
\* owner are saved, one round trip each.
bankTransferConfirm(p) ==
    IF proc[p].pc = "done"
    THEN \E caller \in Users, ref \in BaseRefs :
           LET r == [Begin("bankTransferConfirm", NoUser, 0, ref, NoUser)
                       EXCEPT !.caller = caller]
               found == \E t \in txs : /\ t.reference = ref
                                       /\ t.transactionType = "deposit"
                                       /\ t.status = "pending"
           IN /\ Free(p)
              /\ nreq' = nreq + 1
              /\ proc' =
                    IF ~found
                    THEN [proc EXCEPT ![p] = Answer(r, "NotFound")]
                    ELSE MarkRival(
                           [proc EXCEPT ![p] =
                              [r EXCEPT !.pc = "readUser", !.user = TxOf(ref).userId,
                                        !.amount = TxOf(ref).amount]],
                           p, ref, "bankTransferCancel")
              /\ UNCHANGED <<balance, txs, pins, applied>>
    ELSE /\ proc[p].route = "bankTransferConfirm"
         /\ proc[p].pc \in {"readUser", "saveTx", "saveUser"}
         /\ CASE proc[p].pc = "readUser" ->
                   /\ proc' = [proc EXCEPT ![p].pc = "saveTx",
                                           ![p].ubal = balance[proc[p].user]]
                   /\ UNCHANGED <<balance, txs, applied>>
              [] proc[p].pc = "saveTx" ->
                   /\ txs' = SetStatus(txs, proc[p].ref, "successful")
                   /\ proc' = [proc EXCEPT ![p].pc = "saveUser"]
                   /\ UNCHANGED <<balance, applied>>
              [] proc[p].pc = "saveUser" ->
                   /\ balance' = [balance EXCEPT ![proc[p].user] =
                                     proc[p].ubal + proc[p].amount]
                   /\ applied' = Count(proc[p].ref)
                   /\ proc' = [proc EXCEPT ![p] = Answer(proc[p], "ok")]
                   /\ txs' = txs
         /\ UNCHANGED <<pins, nreq>>

\* ------------------------------------------ payments router (Paystack), part_001
\* The gateway's charges: the charge of reference R1 is a deposit of 100 naira
\* by user A; the gateway knows no charge under the other references.
ChargeRefs == {"R1"}
Charge(ref) == [userId |-> "A", amount |-> 100 * KoboPerNaira]

\* const amountInNaira = amount / 100
amountInNaira(kobo) == kobo \div KoboPerNaira

\* POST api/payments/withdraw.  No session: the balance is saved, then the
\* record, whose transactionType is "withdrawal".
paymentsWithdraw(p) ==
    IF proc[p].pc = "done"
    THEN \E u \in Users, a \in Amounts, gatewayOk \in BOOLEAN :
           LET r == Begin("paymentsWithdraw", u, a, NoRef, NoUser)
           IN /\ Free(p) /\ HasFresh
              /\ nreq' = nreq + 1
              /\ proc' = [proc EXCEPT ![p] =
                    IF a = 0 THEN Answer(r, "InvalidAmount")
                    ELSE IF balance[u] < a THEN Answer(r, "InsufficientBalance")
                    ELSE IF ~gatewayOk THEN Answer(r, "GatewayFailed")
                    ELSE [r EXCEPT !.pc = "saveUser", !.ubal = balance[u],
                                   !.ref = FreshRef]]
              /\ UNCHANGED <<balance, txs, pins, applied>>
    ELSE /\ proc[p].route = "paymentsWithdraw"
         /\ proc[p].pc \in {"saveUser", "saveTx"}
         /\ LET r == proc[p]
                t == NewTx(r.user, "withdrawal", r.amount, 0, "pending",
                           NoUser, r.ref)
            IN IF r.pc = "saveUser"
               THEN /\ balance' = [balance EXCEPT ![r.user] = r.ubal - r.amount]
                    /\ applied' = Count(r.ref)
                    /\ proc' = MarkRaced([proc EXCEPT ![p].pc = "saveTx"],
                                         p, r.user, r.amount)
                    /\ txs' = txs
               ELSE /\ UNCHANGED <<balance, applied>>
                    /\ IF CanInsert(txs, t)
                       THEN /\ txs' = txs \cup {t}
                            /\ proc' = [proc EXCEPT ![p] = Answer(r, "ok")]
                       ELSE /\ txs' = txs
                            /\ proc' = [proc EXCEPT ![p] = Answer(r, "ServerError")]
         /\ UNCHANGED <<pins, nreq>>

\* POST api/payments/transfer.  No session and no PIN: four saves in a row.
paymentsTransfer(p) ==
    IF proc[p].pc = "done"
    THEN \E u \in Users, rid \in Users \cup {NoUser}, a \in Amounts,
            gatewayOk \in BOOLEAN :
           LET r == Begin("paymentsTransfer", u, a, NoRef, rid)
           IN /\ Free(p) /\ HasFresh
              /\ nreq' = nreq + 1
              /\ proc' = [proc EXCEPT ![p] =
                    IF a <= 0 THEN Answer(r, "InvalidAmount")
                    ELSE IF balance[u] < a THEN Answer(r, "InsufficientBalance")
                    ELSE IF rid = NoUser THEN Answer(r, "RecipientNotFound")
                    ELSE IF ~gatewayOk THEN Answer(r, "GatewayFailed")
                    ELSE [r EXCEPT !.pc = "saveUser", !.ubal = balance[u],
                                   !.rbal = balance[rid], !.ref = FreshRef]]
              /\ UNCHANGED <<balance, txs, pins, applied>>
    ELSE /\ proc[p].route = "paymentsTransfer"
         /\ proc[p].pc \in {"saveUser", "saveRecipient", "saveTx", "saveRcvTx"}
         /\ LET r == proc[p]
                st == NewTx(r.user, "send", r.amount, 0, "successful", r.rcpt, r.ref)
                rt == NewTx(r.rcpt, "receive", r.amount, 0, "successful", r.user,
                            Rcv(r.ref))
            IN CASE r.pc = "saveUser" ->
                      /\ balance' = [balance EXCEPT ![r.user] = r.ubal - r.amount]
                      /\ proc' = MarkRaced([proc EXCEPT ![p].pc = "saveRecipient"],
                                           p, r.user, r.amount)
                      /\ txs' = txs
                 [] r.pc = "saveRecipient" ->
                      /\ balance' = [balance EXCEPT ![r.rcpt] = r.rbal + r.amount]
                      /\ proc' = [proc EXCEPT ![p].pc = "saveTx"]
                      /\ txs' = txs
                 [] r.pc = "saveTx" ->
                      /\ balance' = balance
                      /\ IF CanInsert(txs, st)
                         THEN /\ txs' = txs \cup {st}
                              /\ proc' = [proc EXCEPT ![p].pc = "saveRcvTx"]
                         ELSE /\ txs' = txs
                              /\ proc' = [proc EXCEPT ![p] = Answer(r, "ServerError")]
                 [] r.pc = "saveRcvTx" ->
                      /\ balance' = balance
                      /\ IF CanInsert(txs, rt)
                         THEN /\ txs' = txs \cup {rt}
                              /\ proc' = [proc EXCEPT ![p] = Answer(r, "ok")]
                         ELSE /\ txs' = txs
                              /\ proc' = [proc EXCEPT ![p] = Answer(r, "ServerError")]
         /\ UNCHANGED <<pins, nreq, applied>>

\* The credit of a charge, as GET /callback, handleSuccessfulPayment and POST
\* /charge-card write it: the user's balance is saved, then the record.  A failed insert
\* is caught: the callback redirects to the failure page (onError), the webhook
\* handler logs it and the webhook is acknowledged.
CreditCharge(p, route, onError) ==
    /\ proc[p].route = route
    /\ proc[p].pc \in {"saveUser", "saveTx"}
    /\ LET r == proc[p]
           t == NewTx(r.user, "deposit", r.amount, 0, "successful", NoUser, r.ref)
       IN IF r.pc = "saveUser"
          THEN /\ balance' = [balance EXCEPT ![r.user] = r.ubal + r.amount]
               /\ applied' = Count(r.ref)
               /\ proc' = [proc EXCEPT ![p].pc = "saveTx"]
               /\ txs' = txs
          ELSE /\ UNCHANGED <<balance, applied>>
               /\ IF CanInsert(txs, t)
                  THEN /\ txs' = txs \cup {t}
                       /\ proc' = [proc EXCEPT ![p] = Answer(r, "ok")]
                  ELSE /\ txs' = txs
                       /\ proc' = [proc EXCEPT ![p] = Answer(r, onError)]
    /\ UNCHANGED <<pins, nreq>>

\* GET api/payments/callback?reference=...: the charge is verified with the
\* gateway, which reports its status.
paymentCallback(p) ==
    IF proc[p].pc = "done"
    THEN \E ref \in BaseRefs, status \in {"success", "abandoned"} :
           LET c == Charge(ref)
               r == [Begin("paymentCallback", c.userId, amountInNaira(c.amount),
                           ref, NoUser) EXCEPT !.gw = status]
           IN /\ Free(p)
              /\ nreq' = nreq + 1
              /\ proc' = [proc EXCEPT ![p] =
                    IF ref \notin ChargeRefs THEN Answer(r, "Failed")
                    ELSE IF status # "success" THEN Answer(r, "Failed")
                    ELSE IF Exists(ref) THEN Answer(r, "ok")
                    ELSE [r EXCEPT !.pc = "saveUser", !.ubal = balance[c.userId]]]
              /\ UNCHANGED <<balance, txs, pins, applied>>
    ELSE CreditCharge(p, "paymentCallback", "ServerError")

\* The statuses a charge may have in the gateway's response to
\* /transaction/charge_authorization.
ChargeStatuses == {"success", "failed"}

\* POST api/payments/charge-card.  The gateway's response carries status (the
\* call was served) and data.status (what became of the charge); the reference
\* of the record is the gateway's.
chargeCard(p) ==
    IF proc[p].pc = "done"
    THEN \E u \in Users, a \in Amounts, cardFound \in BOOLEAN,
            status \in BOOLEAN, dataStatus \in ChargeStatuses :
           LET r == [Begin("chargeCard", u, a, NoRef, NoUser)
                       EXCEPT !.gw = dataStatus]
           IN /\ Free(p) /\ HasFresh
              /\ nreq' = nreq + 1
              /\ proc' = [proc EXCEPT ![p] =
                    IF a <= 0 THEN Answer([r EXCEPT !.gw = "none"], "InvalidAmount")
                    ELSE IF ~cardFound
                         THEN Answer([r EXCEPT !.gw = "none"], "CardNotFound")
                    ELSE IF status # TRUE THEN Answer(r, "PaymentFailed")
                    ELSE [r EXCEPT !.pc = "saveUser", !.ubal = balance[u],
                                   !.ref = FreshRef]]
              /\ UNCHANGED <<balance, txs, pins, applied>>
    ELSE CreditCharge(p, "chargeCard", "ServerError")

\* POST api/payments/webhook, event charge.success: handleSuccessfulPayment.
\* Whatever happens in the handler, the webhook is acknowledged.
handleSuccessfulPayment(p) ==
    IF proc[p].pc = "done"
    THEN \E ref \in ChargeRefs, metadata \in BOOLEAN :
           LET c == Charge(ref)
               r == Begin("handleSuccessfulPayment", c.userId,
                          amountInNaira(c.amount), ref, NoUser)
           IN /\ Free(p)
              /\ nreq' = nreq + 1
              /\ proc' = [proc EXCEPT ![p] =
                    IF ~metadata THEN Answer(r, "ok")
                    ELSE IF Exists(ref)
                         THEN Answer([r EXCEPT !.st0 = TxOf(ref).status], "ok")
                    ELSE [r EXCEPT !.pc = "saveUser", !.ubal = balance[c.userId]]]
              /\ UNCHANGED <<balance, txs, pins, applied>>
    ELSE CreditCharge(p, "handleSuccessfulPayment", "ok")

\* POST api/transactions/confirm-deposit by the payer of a gateway charge, with
\* the reference and the amount of that charge.
confirmDepositOfCharge(p) ==
    ConfirmDeposit(p, {Charge(r).userId : r \in ChargeRefs},
                   {amountInNaira(Charge(r).amount) : r \in ChargeRefs}, ChargeRefs)

\* POST api/payments/webhook, event transfer.success: handleSuccessfulTransfer.
\* findOneAndUpdate({ reference: metadata.originalReference }, { status }):
\* one atomic update, no status filter, no validators.
handleSuccessfulTransfer(p) ==
    \E orig \in AllRefs, metadata \in BOOLEAN :
       LET r == Begin("handleSuccessfulTransfer", NoUser, 0, orig, NoUser)
       IN /\ Free(p)
          /\ nreq' = nreq + 1
          /\ txs' = IF metadata THEN SetStatus(txs, orig, "successful") ELSE txs
          /\ proc' = [proc EXCEPT ![p] = Answer(r, "ok")]
          /\ UNCHANGED <<balance, pins, applied>>

\* The amount field a transfer event may carry (data.amount).
EventAmounts == {50, 100}

\* A compensation that would take its amount from the event.
RefundAmountOfEvent(t, data) == data.amount

\* sender.balance += transaction.amount, recipient.balance -= transaction.amount:
\* the amount of the loaded record t, whatever the event's data says.
RefundAmount(t, data) == t.amount

\* The webhook handlers that load the record of data.reference: the request of
\* the slot once the record is found.
Loaded(route, data) ==
    LET t == TxOf(data.reference)
    IN [Begin(route, t.userId, RefundAmount(t, data), data.reference, t.recipientId)
          EXCEPT !.pc = "saveTx", !.st0 = t.status]

\* POST api/payments/webhook, event transfer.failed: handleFailedTransfer.
handleFailedTransfer(p) ==
    IF proc[p].pc = "done"
    THEN \E ref \in AllRefs, a \in EventAmounts :
           /\ Free(p)
           /\ nreq' = nreq + 1
           /\ proc' =
                 IF ~Exists(ref)
                 THEN [proc EXCEPT ![p] = Answer(
                          Begin("handleFailedTransfer", NoUser, 0, ref, NoUser), "ok")]
                 ELSE MarkRival(
                        [proc EXCEPT ![p] =
                           Loaded("handleFailedTransfer",
                                  [reference |-> ref, amount |-> a])],
                        p, ref, "handleFailedTransfer")
           /\ UNCHANGED <<balance, txs, pins, applied>>
    ELSE /\ proc[p].route = "handleFailedTransfer"
         /\ proc[p].pc \in {"saveTx", "readUser", "saveUser"}
         /\ LET r == proc[p]
            IN CASE r.pc = "saveTx" ->
                      /\ txs' = SetStatus(txs, r.ref, "failed")
                      /\ proc' = [proc EXCEPT ![p].pc = "readUser"]
                      /\ UNCHANGED <<balance, applied>>
                 [] r.pc = "readUser" ->
                      /\ proc' = [proc EXCEPT ![p].pc = "saveUser",
                                              ![p].ubal = balance[r.user]]
                      /\ UNCHANGED <<balance, txs, applied>>
                 [] r.pc = "saveUser" ->
                      /\ balance' = [balance EXCEPT ![r.user] = r.ubal + r.amount]
                      /\ applied' = Count(r.ref)
                      /\ proc' = [proc EXCEPT ![p] = Answer(r, "ok")]
                      /\ txs' = txs
         /\ UNCHANGED <<pins, nreq>>

\* POST api/payments/webhook, event transfer.reversed: handleReversedTransfer.
handleReversedTransfer(p) ==
    IF proc[p].pc = "done"
    THEN \E ref \in AllRefs, a \in EventAmounts :
           /\ Free(p)
           /\ nreq' = nreq + 1
           /\ proc' =
                 IF ~Exists(ref)
                 THEN [proc EXCEPT ![p] = Answer(
                          Begin("handleReversedTransfer", NoUser, 0, ref, NoUser), "ok")]
                 ELSE MarkRival(
                        [proc EXCEPT ![p] =
                           Loaded("handleReversedTransfer",
                                  [reference |-> ref, amount |-> a])],
                        p, ref, "handleReversedTransfer")
           /\ UNCHANGED <<balance, txs, pins, applied>>
    ELSE /\ proc[p].route = "handleReversedTransfer"
         /\ proc[p].pc \in {"saveTx", "readUser", "saveUser", "readRecipient",
                            "saveRecipient"}
         /\ LET r == proc[p]
            IN CASE r.pc = "saveTx" ->
                      /\ IF "reversed" \in StatusEnum
                         THEN /\ txs' = SetStatus(txs, r.ref, "reversed")
                              /\ proc' = [proc EXCEPT ![p].pc = "readUser"]
                         ELSE \* ValidationError, caught and logged
                              /\ txs' = txs
                              /\ proc' = [proc EXCEPT ![p] = Answer(r, "ok")]
                      /\ UNCHANGED <<balance, applied>>
                 [] r.pc = "readUser" ->
                      /\ proc' = [proc EXCEPT ![p].pc = "saveUser",
                                              ![p].ubal = balance[r.user]]
                      /\ UNCHANGED <<balance, txs, applied>>
                 [] r.pc = "saveUser" ->
                      /\ balance' = [balance EXCEPT ![r.user] = r.ubal + r.amount]
                      /\ applied' = Count(r.ref)
                      /\ proc' = [proc EXCEPT ![p] =
                            IF r.rcpt = NoUser THEN Answer(r, "ok")
                            ELSE [r EXCEPT !.pc = "readRecipient"]]
                      /\ txs' = txs
                 [] r.pc = "readRecipient" ->
                      /\ proc' = [proc EXCEPT ![p].pc = "saveRecipient",
                                              ![p].rbal = balance[r.rcpt]]
                      /\ UNCHANGED <<balance, txs, applied>>
                 [] r.pc = "saveRecipient" ->
                      /\ balance' = [balance EXCEPT ![r.rcpt] = r.rbal - r.amount]
                      /\ proc' = [proc EXCEPT ![p] = Answer(r, "ok")]
                      /\ UNCHANGED <<txs, applied>>
         /\ UNCHANGED <<pins, nreq>>

\* ------------------------------------------------- stripe router, part_004
\* The payment intents a request may name.
PaymentIntents == {"pi_1"}

\* POST api/stripe/confirm-payment.  The intent is retrieved from Stripe, which
\* reports its status; the reference of the record is generated by the server.
\* No session: the balance is saved, then the record.
confirmPayment(p) ==
    IF proc[p].pc = "done"
    THEN \E u \in Users, a \in Amounts, pi \in PaymentIntents,
            status \in {"succeeded", "requires_payment_method"} :
           LET r == [Begin("confirmPayment", u, a, NoRef, NoUser)
                       EXCEPT !.intent = pi]
           IN /\ Free(p) /\ HasFresh
              /\ nreq' = nreq + 1
              /\ proc' = [proc EXCEPT ![p] =
                    IF status # "succeeded" THEN Answer(r, "NotCompleted")
                    ELSE [r EXCEPT !.pc = "saveUser", !.ubal = balance[u],
                                   !.ref = FreshRef]]
              /\ UNCHANGED <<balance, txs, pins, applied>>
    ELSE /\ proc[p].route = "confirmPayment"
         /\ proc[p].pc \in {"saveUser", "saveTx"}
         /\ LET r == proc[p]
                t == [NewTx(r.user, "deposit", r.amount, 0, "successful",
                            NoUser, r.ref)
                        EXCEPT !.stripePaymentIntentId = r.intent]
            IN IF r.pc = "saveUser"
               THEN /\ balance' = [balance EXCEPT ![r.user] = r.ubal + r.amount]
                    /\ applied' = Count(r.ref)
                    /\ proc' = [proc EXCEPT ![p].pc = "saveTx"]
                    /\ txs' = txs
               ELSE /\ UNCHANGED <<balance, applied>>
                    /\ IF CanInsert(txs, t)
                       THEN /\ txs' = txs \cup {t}
                            /\ proc' = [proc EXCEPT ![p] = Answer(r, "ok")]
                       ELSE /\ txs' = txs
                            /\ proc' = [proc EXCEPT ![p] = Answer(r, "ServerError")]
         /\ UNCHANGED <<pins, nreq>>

\* ------------------------------------------------- POST api/payments/webhook
\* The event kinds of the switch, and one it does not handle.
Events == {"charge.success", "transfer.success", "transfer.failed",
           "transfer.reversed", "subscription.create"}

\* process.env.PAYSTACK_SECRET_KEY, and a key of someone who does not have it.
Secret == "PAYSTACK_SECRET_KEY"
Keys == {Secret, "guessed"}

\* The bytes of a request body: the JSON text of { event, data: { reference } },
\* written compactly or with white space.
Formats == {"compact", "spaced"}
RawPayload(event, ref, fmt) == [event |-> event, reference |-> ref, fmt |-> fmt]

\* app.use(express.json()): req.body is the parsed object, the text is gone.
JsonParse(raw) == [event |-> raw.event, reference |-> raw.reference]

\* JSON.stringify(req.body): the compact text of the object.
JsonStringify(body) ==
    [event |-> body.event, reference |-> body.reference, fmt |-> "compact"]

\* crypto.createHmac("sha512", key).update(bytes).digest("hex")
Hmac(key, bytes) == <<"sha512", key, bytes>>

\* A comparison that lets every signature through.
SignatureAny(hash, signature) == TRUE

\* hash !== req.headers["x-paystack-signature"] rejects the request.
SignatureOk(hash, signature) == hash = signature

\* POST api/payments/webhook.  The request carries raw bytes and a signature
\* header (the keyed hash, under some key, of some formatting of the payload).
\* The hash is taken over the re-serialized parsed body; on a match the event is
\* dispatched to its handler, whose steps follow.
webhook(p) ==
    IF proc[p].pc = "done"
    THEN \E event \in Events, ref \in AllRefs, fmt \in Formats, key \in Keys,
            sfmt \in Formats :
           LET raw == RawPayload(event, ref, fmt)
               signature == Hmac(key, RawPayload(event, ref, sfmt))
               body == JsonParse(raw)
               hash == Hmac(Secret, JsonStringify(body))
               r == Begin("webhook", NoUser, 0, ref, NoUser)
           IN /\ unverified' = IF signature = Hmac(Secret, raw)
                               THEN unverified \ {p} ELSE unverified \cup {p}
              /\ IF ~SignatureOk(hash, signature)
                 THEN /\ Free(p)
                      /\ nreq' = nreq + 1
                      /\ proc' = [proc EXCEPT ![p] = Answer(r, "InvalidSignature")]
                      /\ UNCHANGED <<balance, txs, pins, applied>>
                 ELSE CASE event = "charge.success" ->
                             handleSuccessfulPayment(p) /\ proc'[p].ref = body.reference
                        [] event = "transfer.success" ->
                             handleSuccessfulTransfer(p) /\ proc'[p].ref = body.reference
                        [] event = "transfer.failed" ->
                             handleFailedTransfer(p) /\ proc'[p].ref = body.reference
                        [] event = "transfer.reversed" ->
                             handleReversedTransfer(p) /\ proc'[p].ref = body.reference
                        [] OTHER ->
                             /\ Free(p)
                             /\ nreq' = nreq + 1
                             /\ proc' = [proc EXCEPT ![p] = Answer(r, "ok")]
                             /\ UNCHANGED <<balance, txs, pins, applied>>
    ELSE /\ proc[p].route \in {"handleSuccessfulPayment", "handleFailedTransfer",
                               "handleReversedTransfer"}
         /\ \/ handleSuccessfulPayment(p)
            \/ handleFailedTransfer(p)
            \/ handleReversedTransfer(p)
         /\ UNCHANGED unverified

Next ==
    \/ \E u \in Users : setTransactionPin(u, "1111") /\ UNCHANGED unverified
    \/ \E p \in Procs : transfer(p) /\ UNCHANGED unverified
    \/ \E p \in Procs : bankTransfer(p) /\ UNCHANGED unverified
    \/ \E p \in Procs : withdraw(p) /\ UNCHANGED unverified
    \/ \E p \in Procs : deposit(p) /\ UNCHANGED unverified
    \/ \E p \in Procs : confirmDeposit(p) /\ UNCHANGED unverified
    \/ \E p \in Procs : abortTransaction(p) /\ UNCHANGED unverified
    \/ \E p \in Procs : bankTransferInitiate(p) /\ UNCHANGED unverified
    \/ \E p \in Procs : bankTransferCancel(p) /\ UNCHANGED unverified
    \/ \E p \in Procs : bankTransferConfirm(p) /\ UNCHANGED unverified
    \/ \E p \in Procs : paymentsWithdraw(p) /\ UNCHANGED unverified
    \/ \E p \in Procs : paymentsTransfer(p) /\ UNCHANGED unverified
    \/ \E p \in Procs : paymentCallback(p) /\ UNCHANGED unverified
    \/ \E p \in Procs : handleSuccessfulPayment(p) /\ UNCHANGED unverified
    \/ \E p \in Procs : handleSuccessfulTransfer(p) /\ UNCHANGED unverified
    \/ \E p \in Procs : handleFailedTransfer(p) /\ UNCHANGED unverified
    \/ \E p \in Procs : handleReversedTransfer(p) /\ UNCHANGED unverified
    \/ \E p \in Procs : confirmPayment(p) /\ UNCHANGED unverified
    \/ \E p \in Procs : chargeCard(p) /\ UNCHANGED unverified
    \/ \E p \in Procs : transactionPin(p) /\ UNCHANGED unverified
    \/ \E p \in Procs : verifyPin(p) /\ UNCHANGED unverified
    \/ \E p \in Procs : webhook(p)

\* The server: every route and every webhook event.
Spec == Init /\ [][Next]_vars

\* The debiting routes, with the deposit that funds an account.
NextDebit ==
    \/ \E u \in Users : setTransactionPin(u, "1111") /\ UNCHANGED unverified
    \/ \E p \in Procs : deposit(p) /\ UNCHANGED unverified
    \/ \E p \in Procs : transfer(p) /\ UNCHANGED unverified
    \/ \E p \in Procs : bankTransfer(p) /\ UNCHANGED unverified
    \/ \E p \in Procs : withdraw(p) /\ UNCHANGED unverified
    \/ \E p \in Procs : abortTransaction(p) /\ UNCHANGED unverified
    \/ \E p \in Procs : paymentsWithdraw(p) /\ UNCHANGED unverified
    \/ \E p \in Procs : paymentsTransfer(p) /\ UNCHANGED unverified

SpecDebit == Init /\ [][NextDebit]_vars

\* The routes of transactions.js behind the PIN guard, with the deposit that
\* funds an account.
NextGuarded ==
    \/ \E u \in Users : setTransactionPin(u, "1111") /\ UNCHANGED unverified
    \/ \E p \in Procs : deposit(p) /\ UNCHANGED unverified
    \/ \E p \in Procs : transfer(p) /\ UNCHANGED unverified
    \/ \E p \in Procs : bankTransfer(p) /\ UNCHANGED unverified
    \/ \E p \in Procs : withdraw(p) /\ UNCHANGED unverified
    \/ \E p \in Procs : abortTransaction(p) /\ UNCHANGED unverified

SpecGuarded == Init /\ [][NextGuarded]_vars

\* The PIN guard before the debits of /bank-transfer and /withdraw.
NextPin ==
    \/ \E u \in Users : setTransactionPin(u, "1111") /\ UNCHANGED unverified
    \/ \E p \in Procs : deposit(p) /\ UNCHANGED unverified
    \/ \E p \in Procs : bankTransfer(p) /\ UNCHANGED unverified
    \/ \E p \in Procs : withdraw(p) /\ UNCHANGED unverified
    \/ \E p \in Procs : abortTransaction(p) /\ UNCHANGED unverified

SpecPin == Init /\ [][NextPin]_vars

\* The compensating events on the records that bank-transfer deposits leave.
NextCompensate ==
    \/ \E p \in Procs : bankTransferInitiate(p) /\ UNCHANGED unverified
    \/ \E p \in Procs : handleFailedTransfer(p) /\ UNCHANGED unverified
    \/ \E p \in Procs : handleReversedTransfer(p) /\ UNCHANGED unverified

SpecCompensate == Init /\ [][NextCompensate]_vars

\* The credits that follow a response of the gateway: the charge of a saved card
\* and the payment callback.
NextGateway ==
    \/ \E p \in Procs : chargeCard(p) /\ UNCHANGED unverified
    \/ \E p \in Procs : paymentCallback(p) /\ UNCHANGED unverified

SpecGateway == Init /\ [][NextGateway]_vars

\* The transaction PIN: set, rotate, verify.
NextPinStore ==
    \/ \E p \in Procs : transactionPin(p) /\ UNCHANGED unverified
    \/ \E p \in Procs : verifyPin(p) /\ UNCHANGED unverified

SpecPinStore == Init /\ [][NextPinStore]_vars

\* The debits of /bank-transfer and /withdraw and the transfer.failed event that
\* compensates them.
NextRefund ==
    \/ \E u \in Users : setTransactionPin(u, "1111") /\ UNCHANGED unverified
    \/ \E p \in Procs : deposit(p) /\ UNCHANGED unverified
    \/ \E p \in Procs : bankTransfer(p) /\ UNCHANGED unverified
    \/ \E p \in Procs : withdraw(p) /\ UNCHANGED unverified
    \/ \E p \in Procs : abortTransaction(p) /\ UNCHANGED unverified
    \/ \E p \in Procs : handleFailedTransfer(p) /\ UNCHANGED unverified

SpecRefund == Init /\ [][NextRefund]_vars

\* The three ways the deposit of a gateway charge is credited: the callback, the
\* charge.success event and confirm-deposit with the charge's reference.
NextCharge ==
    \/ \E p \in Procs : paymentCallback(p) /\ UNCHANGED unverified
    \/ \E p \in Procs : handleSuccessfulPayment(p) /\ UNCHANGED unverified
    \/ \E p \in Procs : confirmDepositOfCharge(p) /\ UNCHANGED unverified
    \/ \E p \in Procs : abortTransaction(p) /\ UNCHANGED unverified

SpecCharge == Init /\ [][NextCharge]_vars

\* Bank-transfer deposits: initiate, cancel, confirm.
NextBank ==
    \/ \E p \in Procs : bankTransferInitiate(p) /\ UNCHANGED unverified
    \/ \E p \in Procs : bankTransferCancel(p) /\ UNCHANGED unverified
    \/ \E p \in Procs : bankTransferConfirm(p) /\ UNCHANGED unverified

SpecBank == Init /\ [][NextBank]_vars

\* Reconciliation: the transfer events of the webhook on the records that
\* deposits and transfers leave.
NextHooks ==
    \/ \E p \in Procs : bankTransferInitiate(p) /\ UNCHANGED unverified
    \/ \E p \in Procs : deposit(p) /\ UNCHANGED unverified
    \/ \E p \in Procs : abortTransaction(p) /\ UNCHANGED unverified
    \/ \E p \in Procs : paymentsTransfer(p) /\ UNCHANGED unverified
    \/ \E p \in Procs : handleSuccessfulTransfer(p) /\ UNCHANGED unverified
    \/ \E p \in Procs : handleFailedTransfer(p) /\ UNCHANGED unverified
    \/ \E p \in Procs : handleReversedTransfer(p) /\ UNCHANGED unverified

SpecHooks == Init /\ [][NextHooks]_vars

\* Provider withdrawals (of positive amounts) and the transfer events that
\* settle them.
NextPayout ==
    \/ \E p \in Procs : deposit(p) /\ UNCHANGED unverified
    \/ \E p \in Procs : abortTransaction(p) /\ UNCHANGED unverified
    \/ \E p \in Procs : paymentsWithdraw(p) /\ proc'[p].amount >= 0
                            /\ UNCHANGED unverified
    \/ \E p \in Procs : handleSuccessfulTransfer(p) /\ UNCHANGED unverified
    \/ \E p \in Procs : handleFailedTransfer(p) /\ UNCHANGED unverified

SpecPayout == Init /\ [][NextPayout]_vars

\* The webhook endpoint on the records that bank-transfer deposits leave.
NextWebhook ==
    \/ \E p \in Procs : bankTransferInitiate(p) /\ UNCHANGED unverified
    \/ \E p \in Procs : webhook(p)

SpecWebhook == Init /\ [][NextWebhook]_vars

\* The requests that settle a deposit: confirm-deposit, the confirmation of a
\* bank-transfer deposit and the confirmation of a card payment.
NextSettle ==
    \/ \E p \in Procs : confirmDeposit(p) /\ UNCHANGED unverified
    \/ \E p \in Procs : abortTransaction(p) /\ UNCHANGED unverified
    \/ \E p \in Procs : bankTransferInitiate(p) /\ UNCHANGED unverified
    \/ \E p \in Procs : bankTransferConfirm(p) /\ UNCHANGED unverified
    \/ \E p \in Procs : confirmPayment(p) /\ UNCHANGED unverified

SpecSettle == Init /\ [][NextSettle]_vars

\* The charge.success event on the records that bank-transfer deposits leave.
NextChargeEvent ==
    \/ \E p \in Procs : bankTransferInitiate(p) /\ UNCHANGED unverified
    \/ \E p \in Procs : handleSuccessfulPayment(p) /\ UNCHANGED unverified

SpecChargeEvent == Init /\ [][NextChargeEvent]_vars

\* =================================================================== properties
\* The amount a debiting route takes off the sender: the routes of
\* transactions.js add the fee, those of the payments router do not.
DebitCost(r) ==
    IF r.route \in {"transfer", "bankTransfer", "withdraw"}
    THEN r.amount + Fee ELSE r.amount

\* In this step request p writes its debit (the session commits, or the
\* sender's document is saved).
DebitWritten(p) ==
    /\ proc[p].route \in DebitRoutes
    /\ proc[p].pc \in {"commit", "saveUser"}
    /\ proc'[p].pc # proc[p].pc
    /\ proc'[p].res # "ServerError"

\* The signed contribution of a record to its owner's balance.
Signed(t) ==
    IF t.status # "successful" THEN 0
    ELSE IF t.transactionType \in {"deposit", "receive"} THEN t.amount
    ELSE IF t.transactionType \in {"send", "withdraw"} THEN 0 - (t.amount + t.fee)
    ELSE 0

RECURSIVE LedgerSum(_)
LedgerSum(T) ==
    IF T = {} THEN 0
    ELSE LET t == CHOOSE x \in T : TRUE
         IN Signed(t) + LedgerSum(T \ {t})

Min(a, b) == IF a <= b THEN a ELSE b

\* C1: of two debit requests on one account that run concurrently and whose
\* combined cost (amounts plus fees) exceeds the balance, at most one commits:
\* a request that read the balance before a concurrent debit was written, and
\* that the balance left by that debit does not cover, does not write its own.
C1_AtMostOneConcurrentDebit ==
    [][\A p \in Procs :
          (/\ proc[p].raced > 0
           /\ DebitCost(proc[p]) > 0
           /\ DebitCost(proc[p]) + proc[p].raced > proc[p].ubal
           /\ balance[proc[p].user] = proc[p].ubal - proc[p].raced)
          => ~DebitWritten(p)]_vars

\* C2: a transfer.failed (or transfer.reversed) event delivered again, after a
\* first delivery has been handled and left the record in the event's final
\* status, changes neither the record nor any balance.
C2_DuplicateEventNoSecondRefund ==
    [][\A p \in Procs :
          (/\ \/ proc[p].route = "handleFailedTransfer" /\ proc[p].st0 = "failed"
              \/ proc[p].route = "handleReversedTransfer" /\ proc[p].st0 = "reversed"
           /\ InFlight(p)
           /\ ~proc[p].rival
           /\ proc'[p] # proc[p])
          => (balance' = balance /\ txs' = txs)]_vars

\* C3: however the callback, the charge.success event and confirm-deposit for
\* the reference of one provider deposit of X interleave, the payer is credited
\* X exactly once: the payer's balance is never more than one credit of X.
C3_ChargeCreditedOnce ==
    \A r \in ChargeRefs :
       balance[Charge(r).userId] \in {0, amountInNaira(Charge(r).amount)}

\* C4: at every observable point each user's balance is the sum of the amounts
\* of the user's successful credit records minus the sum of amount plus fee of
\* the user's successful debit records.
C4_LedgerInvariant ==
    \A u \in Users : balance[u] = LedgerSum({t \in txs : t.userId = u})

\* C5: an on-platform transfer is all or nothing: no observable state holds the
\* sender's debit without the recipient's credit and the two records, and no
\* stored send record of a transfer lacks its receive record.
C5_TransferAllOrNothing ==
    /\ \A p \in Procs :
          proc[p].route \in {"transfer", "paymentsTransfer"}
             => proc[p].pc \notin {"saveRecipient", "saveTx", "saveRcvTx"}
    /\ \A t \in txs :
          (t.transactionType = "send" /\ t.recipientId # NoUser)
             => \E n \in txs : /\ n.reference = Rcv(t.reference)
                               /\ n.transactionType = "receive"

\* The edges of the record lifecycle.
LegalEdges ==
    {<<"pending", "successful">>, <<"pending", "failed">>,
     <<"pending", "declined">>, <<"pending", "cancelled">>,
     <<"successful", "reversed">>}

\* C6: every change of a record's status follows one of the lifecycle's edges.
C6_LegalStatusEdges ==
    [][\A t \in txs, n \in txs' :
          (n.reference = t.reference /\ n.status # t.status)
             => <<t.status, n.status>> \in LegalEdges]_vars

C8_ConcurrentDuplicateDelivery ==
    \A p, q \in Procs :
       (/\ p # q
        /\ proc[p].route = "handleSuccessfulPayment"
        /\ proc[q].route = "handleSuccessfulPayment"
        /\ proc[p].ref = proc[q].ref
        /\ proc[p].pc = "saveTx" /\ proc[q].pc = "saveTx")
       => balance[proc[p].user] = Min(proc[p].ubal, proc[q].ubal) + proc[p].amount

\* A cancel (slot c) and a confirm (slot f) of one pending deposit that were in
\* flight together have both been answered.
RaceSettled(c, f) ==
    /\ proc[c].route = "bankTransferCancel" /\ proc[f].route = "bankTransferConfirm"
    /\ proc[c].pc = "done" /\ proc[f].pc = "done"
    /\ proc[c].ref = proc[f].ref
    /\ proc[c].rival /\ proc[f].rival

C10_DebitedBalanceNotNegative ==
    [][\A p \in Procs :
          DebitWritten(p) => balance'[proc[p].user] >= 0]_vars

\* The requests that move money by an amount of the request body.
MoneyRoutes ==
    DebitRoutes \cup {"deposit", "confirmDeposit", "bankTransferInitiate"}

\* Request p, which has saved a balance, is answered in this step.
AnsweredAfterBalanceWrite(p) ==
    /\ InFlight(p) /\ proc'[p].pc = "done"
    /\ \/ balance' # balance
       \/ /\ proc[p].route \in {"paymentsWithdraw", "paymentsTransfer",
                                "paymentCallback", "handleSuccessfulPayment"}
          /\ proc[p].pc \in {"saveRecipient", "saveTx", "saveRcvTx"}

\* C11: when a request that changed a balance by a (positive) amount completes
\* or fails, a transaction record with the request's reference exists; in
\* particular for a provider withdrawal that has debited the balance.
C11_BalanceChangeHasRecord ==
    [][\A p \in Procs :
          (AnsweredAfterBalanceWrite(p) /\ proc[p].amount > 0)
             => \E t \in txs' : t.reference = proc'[p].ref]_vars

\* C12: a money-movement request whose amount is zero or negative is rejected:
\* no such request gets past validation and no record carries such an amount.
C12_NonPositiveAmountRejected ==
    /\ \A p \in Procs :
          (InFlight(p) /\ proc[p].route \in MoneyRoutes) => proc[p].amount > 0
    /\ \A t \in txs : t.amount > 0

\* C13: a transfer, bank-transfer or withdrawal endpoint writes a debit only in
\* a request that verified the caller's PIN against the stored hash.
C13_DebitOnlyAfterPin ==
    [][\A p \in Procs :
          (DebitWritten(p) /\ DebitCost(proc[p]) > 0) => proc[p].pinOk]_vars

\* Request p is a webhook request, or the handler it was dispatched to.
WebhookRoutes ==
    {"webhook", "handleSuccessfulPayment", "handleSuccessfulTransfer",
     "handleFailedTransfer", "handleReversedTransfer"}

TransferEventRoutes ==
    {"handleSuccessfulTransfer", "handleFailedTransfer", "handleReversedTransfer"}

\* C15: a signed transfer event whose reference matches no record, or whose
\* record is in a status the event's transition does not start from (not
\* pending for transfer.failed and transfer.success, not successful for
\* transfer.reversed), changes no record and no balance, and is acknowledged.
C15_IncompatibleEventIsNoOp ==
    [][/\ \A p \in Procs :
            (/\ InFlight(p)
             /\ \/ proc[p].route = "handleFailedTransfer" /\ proc[p].st0 # "pending"
                \/ proc[p].route = "handleReversedTransfer"
                      /\ proc[p].st0 # "successful"
             /\ proc'[p] # proc[p])
            => (balance' = balance /\ txs' = txs)
       /\ \A t \in txs, n \in txs' :
            (n.reference = t.reference /\ n.status # t.status
                /\ n.status = "successful")
            => t.status = "pending"
       /\ \A p \in Procs :
            (proc'[p].route \in TransferEventRoutes /\ proc'[p].pc = "done")
            => proc'[p].res = "ok"]_vars

\* C16: a transfer of a > 0 from A to another account B commits with A's balance
\* decreased by exactly a plus the fee, B's increased by exactly a, no other
\* balance changed, and exactly two new records, both successful: the sender
\* leg under reference R and the recipient leg under R-RCV.
C16_TransferMovesExactAmounts ==
    [][\A p \in Procs :
          (/\ proc[p].route = "transfer" /\ proc[p].pc = "commit"
           /\ proc'[p].res = "ok"
           /\ proc[p].user # proc[p].rcpt /\ proc[p].amount > 0)
          => LET r == proc[p]
                 R == proc'[p].ref
             IN /\ balance'[r.user] = balance[r.user] - (r.amount + Fee)
                /\ balance'[r.rcpt] = balance[r.rcpt] + r.amount
                /\ \A u \in Users \ {r.user, r.rcpt} : balance'[u] = balance[u]
                /\ txs' \ txs =
                     {NewTx(r.user, "send", r.amount, Fee, "successful", r.rcpt, R),
                      NewTx(r.rcpt, "receive", r.amount, 0, "successful", r.user,
                            Rcv(R))}
                /\ Cardinality(txs') = Cardinality(txs) + 2]_vars

\* The debiting routes of transactions.js, which take amount plus fee.
FeeRoutes == {"transfer", "bankTransfer", "withdraw"}

\* C17: a transfer, bank transfer or withdrawal requested with a valid PIN on
\* an account whose balance is less than amount plus fee is answered with the
\* insufficient-balance error; the balances and the records are unchanged.
C17_InsufficientBalanceRejected ==
    [][\A p \in Procs :
          (/\ proc[p].pc = "done" /\ proc'[p] # proc[p]
           /\ proc'[p].route \in FeeRoutes
           /\ proc'[p].res \notin {"PinNotSet", "InvalidPin"}
           /\ balance[proc'[p].user] < proc'[p].amount + Fee)
          => /\ proc'[p].pc = "done"
             /\ proc'[p].res = "InsufficientBalance"
             /\ balance' = balance /\ txs' = txs]_vars

\* C17 witness: a request with a valid PIN was refused for insufficient balance
\* (here a withdrawal, or a transfer, of more than the account holds).
C17_Witness ==
    \E p \in Procs :
       /\ proc[p].route \in FeeRoutes /\ proc[p].pc = "done"
       /\ proc[p].res = "InsufficientBalance"
       /\ proc[p].amount > 0
       /\ pins[proc[p].user] # NoPin
       /\ balance[proc[p].user] > 0
       /\ balance[proc[p].user] < proc[p].amount + Fee
       /\ txs # {}

\* C18: once a transfer.failed event has been handled for the reference of a
\* provider withdrawal of X > 0 whose debit was saved, the withdrawal's record
\* is failed and the account was refunded once: two balance writes were made
\* for the reference, the debit and the refund.
C18_FailedWithdrawalRefunded ==
    \A p \in Procs :
       LET ref == proc[p].ref
       IN (/\ proc[p].route = "handleFailedTransfer" /\ proc[p].pc = "done"
           /\ ~proc[p].rival
           /\ applied[ref] >= 1
           /\ \A q \in Procs : InFlight(q) => proc[q].ref # ref
           /\ \A t \in txs : t.reference = ref => t.transactionType # "deposit")
          => /\ \E t \in txs : t.reference = ref /\ t.status = "failed"
             /\ applied[ref] = 2

\* C19: when a transfer.reversed event has been handled for a record found
\* successful, of a transfer of X from A to B, the record is reversed, A was
\* refunded and the handler's last step took X off B's balance.
C19_ReversalCompensates ==
    [][\A p \in Procs :
          (/\ proc[p].route = "handleReversedTransfer" /\ InFlight(p)
           /\ proc[p].st0 = "successful"
           /\ proc[p].rcpt \notin {NoUser, proc[p].user}
           /\ ~proc[p].rival
           /\ \A q \in Procs : proc[q].route = "paymentsTransfer" => ~InFlight(q)
           /\ proc'[p].pc = "done")
          => /\ \E t \in txs' : t.reference = proc[p].ref /\ t.status = "reversed"
             /\ applied'[proc[p].ref] >= 1
             /\ proc[p].pc = "saveRecipient"
             /\ balance'[proc[p].rcpt] = balance[proc[p].rcpt] - proc[p].amount]_vars

\* C20: whenever no webhook handler is at work on either leg of an on-platform
\* transfer, the sender leg (reference R) and the recipient leg (R-RCV) have
\* the same status.
C20_LegsReconciledTogether ==
    \A t, n \in txs :
       (/\ t.transactionType = "send"
        /\ n.reference = Rcv(t.reference)
        /\ n.userId # t.userId
        /\ \A p \in Procs :
              (InFlight(p) /\ proc[p].route \in TransferEventRoutes)
                 => proc[p].ref \notin {t.reference, n.reference})
       => t.status = n.status

\* C21: at every point in time at most one transaction record exists per
\* reference, and a bank-transfer/initiate request of a valid amount under a
\* reference that a stored record already carries fails (500) and leaves the
\* collection, hence the stored record's amount, owner, kind and status, as it was.
C21_UniqueReference ==
    [][/\ \A t, n \in txs' : t.reference = n.reference => t = n
       /\ \A p \in Procs :
            (/\ Free(p) /\ nreq' = nreq + 1
             /\ proc'[p].route = "bankTransferInitiate"
             /\ proc'[p].res # "InvalidAmount"
             /\ Exists(proc'[p].ref))
            => (proc'[p].res = "ServerError" /\ txs' = txs)]_vars

\* A bank-transfer/initiate request was refused under a stored reference.
C21_Witness ==
    \E p \in Procs :
       /\ proc[p].route = "bankTransferInitiate" /\ proc[p].res = "ServerError"
       /\ Exists(proc[p].ref)

\* The request r repeats one that committed: a record under its reference (or
\* with its payment intent) is stored, or the credit of its reference was written.
RepeatsCommitted(r) ==
    \/ /\ r.route = "confirmDeposit"
       /\ Exists(r.ref) /\ applied[r.ref] > 0
    \/ /\ r.route = "bankTransferConfirm"
       /\ Exists(r.ref) /\ applied[r.ref] > 0
    \/ /\ r.route = "confirmPayment"
       /\ \E t \in txs : t.stripePaymentIntentId = r.intent

\* C22: a confirm-deposit with the reference, a confirm-payment with the payment
\* intent or a bank-transfer confirm with the reference of a request that already
\* committed is rejected when it arrives: it is answered with an error, holds no
\* balance to write and changes no balance.
C22_RepeatRejected ==
    [][\A p \in Procs :
         (Free(p) /\ nreq' = nreq + 1 /\ RepeatsCommitted(proc'[p]))
         => (/\ proc'[p].pc = "done" /\ proc'[p].res # "ok"
             /\ balance' = balance)]_vars

\* C23: when the confirm requests of a pending bank-transfer deposit have been
\* answered, also two that were handled concurrently, the owner's balance was
\* credited once by the record's amount: no other route writing balances, it is
\* the sum of the amounts of the owner's successful records.
C23_ConfirmCreditsOnce ==
    (\A p \in Procs : proc[p].pc = "done") =>
       \A u \in Users : balance[u] = LedgerSum({t \in txs : t.userId = u})

\* C24: once a charge.success event that found a pending deposit record under
\* its reference has been handled, that record is successful and the owner's
\* balance was credited for the reference once.
C24_ChargeSettlesPendingDeposit ==
    \A p \in Procs :
       (/\ proc[p].route = "handleSuccessfulPayment" /\ proc[p].pc = "done"
        /\ proc[p].st0 = "pending")
       => (/\ TxOf(proc[p].ref).status = "successful"
           /\ applied[proc[p].ref] = 1)

\* The debit of a provider withdrawal was saved under reference ref, the request
\* has been answered, and no record under ref has left pending.
WithdrawalAwaitsEvent(ref) ==
    /\ applied[ref] >= 1
    /\ \A q \in Procs : InFlight(q) => proc[q].ref # ref
    /\ \A t \in txs : t.reference = ref =>
          (t.transactionType # "deposit" /\ t.status = "pending")

\* C25: when the transfer.success event is handled for the transfer reference of
\* a provider withdrawal whose debit was saved, the withdrawal's record leaves
\* pending: after the step a successful record is stored under the reference.
C25_PendingWithdrawalSettled ==
    [][\A p \in Procs :
         (/\ Free(p) /\ nreq' = nreq + 1
          /\ proc'[p].route = "handleSuccessfulTransfer"
          /\ WithdrawalAwaitsEvent(proc'[p].ref))
         => \E t \in txs' : t.reference = proc'[p].ref /\ t.status = "successful"]_vars

\* C26: the save of a cancel request that found its pending deposit, the record
\* being still pending, leaves the record cancelled and every balance as it was.
C26_CancelMovesToCancelled ==
    [][\A p \in Procs :
         (/\ proc[p].route = "bankTransferCancel" /\ proc[p].pc = "saveTx"
          /\ proc'[p].pc = "done"
          /\ TxOf(proc[p].ref).status = "pending")
         => (/\ \E t \in txs' : t.reference = proc[p].ref /\ t.status = "cancelled"
             /\ balance' = balance)]_vars

\* The request of slot r was turned away with error res: it is answered and the
\* step changed no balance and no record.
TurnedAway(r, res) ==
    /\ r.pc = "done" /\ r.res = res
    /\ balance' = balance /\ txs' = txs

CompensationRoutes == {"handleFailedTransfer", "handleReversedTransfer"}

\* C28: the handlers of transfer.failed and transfer.reversed compensate by the
\* stored record's amount only.  Two events with the same reference and different
\* amount fields leave the handler with the same loaded request, hence the same
\* writes; and each balance the handler saves is the balance it read plus (for
\* the recipient of a reversal, minus) the amount of the stored record.
C28_CompensationIgnoresEventAmount ==
    [][/\ \A route \in CompensationRoutes, ref \in AllRefs, a1, a2 \in EventAmounts :
            Exists(ref) =>
               Loaded(route, [reference |-> ref, amount |-> a1])
                  = Loaded(route, [reference |-> ref, amount |-> a2])
       /\ \A p \in Procs :
            LET r == proc[p]
            IN /\ (/\ r.route \in CompensationRoutes /\ r.pc = "saveUser"
                   /\ proc'[p].pc # "saveUser")
                  => balance' = [balance EXCEPT ![r.user] =
                                    r.ubal + TxOf(r.ref).amount]
               /\ (/\ r.route = "handleReversedTransfer" /\ r.pc = "saveRecipient"
                   /\ proc'[p].pc # "saveRecipient")
                  => balance' = [balance EXCEPT ![r.rcpt] =
                                    r.rbal - TxOf(r.ref).amount]]_vars

\* C28 witness: a transfer.failed event was handled on a stored record of amount
\* 50 (an event may carry 50 or 100) and the owner was refunded 50.
C28_Witness ==
    \E p \in Procs :
       /\ proc[p].route = "handleFailedTransfer" /\ proc[p].pc = "done"
       /\ proc[p].st0 = "pending"
       /\ Exists(proc[p].ref)
       /\ TxOf(proc[p].ref).amount = 50 /\ TxOf(proc[p].ref).status = "failed"
       /\ applied[proc[p].ref] = 1
       /\ balance[TxOf(proc[p].ref).userId] = 50
       /\ \E a \in EventAmounts : a # TxOf(proc[p].ref).amount

\* Routes whose operation is settled by an external event: the bank transfer to
\* an off-platform account, the bank withdrawal, and the provider's withdrawal
\* and transfer.
ExternallySettledRoutes ==
    {"bankTransfer", "withdraw", "paymentsWithdraw", "paymentsTransfer"}

\* C29: a record is created successful only by an immediately settled operation;
\* the record that a request of an externally settled route stores is created
\* with status pending.
C29_CreatedPendingUntilSettled ==
    [][\A p \in Procs :
          (/\ proc[p].route \in ExternallySettledRoutes
           /\ proc[p].pc \in {"commit", "saveTx", "saveRcvTx"}
           /\ proc'[p].pc # proc[p].pc)
          => \A t \in txs' \ txs : t.status = "pending"]_vars

\* C30: the charge of a saved card and the payment callback write a credit, and
\* store a successful record, only when the gateway's response reports the
\* charge itself (data.status) as success.
C30_CreditOnlyOnChargeSuccess ==
    [][\A p \in Procs :
          (/\ proc[p].route \in {"chargeCard", "paymentCallback"}
           /\ proc[p].pc \in {"saveUser", "saveTx"}
           /\ (balance' # balance \/ txs' # txs))
          => proc[p].gw = "success"]_vars

\* C31: a stored transaction record is never deleted, and its reference, owner,
\* kind, amount and fee never change: every record of the collection is, after
\* any step, still there with these fields as they were (its status may differ).
C31_RecordsImmutableButStatus ==
    [][\A t \in txs :
          \E n \in txs' :
             /\ n.reference = t.reference /\ n.userId = t.userId
             /\ n.transactionType = t.transactionType
             /\ n.amount = t.amount /\ n.fee = t.fee]_vars

\* C31 witness: a transfer.failed event was handled on a record that was stored
\* pending; the record is there, failed.
C31_Witness ==
    \E p \in Procs :
       /\ proc[p].route = "handleFailedTransfer" /\ proc[p].pc = "done"
       /\ proc[p].st0 = "pending"
       /\ \E t \in txs : t.reference = proc[p].ref /\ t.status = "failed"

\* The value the store would hold had the PIN been saved as it came.
Plaintext(pin) == <<pin>>

\* C32: when a set-PIN or rotate-PIN request with PIN x is answered with
\* success, the stored pinHash is a hash and not the plaintext x, comparePin
\* accepts x and refuses every other PIN (the previous one included); and a
\* verify-pin request on an account with a PIN document answers success exactly
\* when comparePin accepts its PIN against the stored hash.
C32_PinStoredHashed ==
    [][\A p \in Procs :
          LET r == proc'[p]
          IN /\ (/\ proc[p].route = "transactionPin" /\ proc[p].pc = "savePin"
                 /\ r.pc = "done" /\ r.res = "ok")
                => (/\ pins'[r.user] \in {Hash(x) : x \in Pins}
                    /\ \A x \in Pins : pins'[r.user] # Plaintext(x)
                    /\ comparePin(r.pin, pins'[r.user])
                    /\ \A x \in Pins \ {r.pin} : ~comparePin(x, pins'[r.user]))
             /\ (/\ Free(p) /\ nreq' = nreq + 1 /\ r.route = "verifyPin"
                 /\ pins[r.user] # NoPin)
                => (/\ r.res \in {"success", "failure"}
                    /\ r.res = "success" <=> pins[r.user] = Hash(r.pin))]_vars

\* C32 witness: a PIN was rotated to 2222 and a verify-pin with the other PIN,
\* 1111, was answered with failure.
C32_Witness ==
    \E p, q \in Procs :
       /\ proc[p].route = "transactionPin" /\ proc[p].pc = "done"
       /\ proc[p].res = "ok" /\ proc[p].st0 = "rotate" /\ proc[p].pin = "2222"
       /\ proc[q].route = "verifyPin" /\ proc[q].user = proc[p].user
       /\ proc[q].pin = "1111" /\ proc[q].res = "failure"
       /\ pins[proc[p].user] = Hash("2222")

\* C33: a transfer request that is refused reports the earliest violated
\* precondition in the order amount, PIN, balance, counterparty: a refusal for
\* want of funds or of a recipient is given only to a request whose amount is
\* positive and whose PIN matches the stored hash, and a refusal for want of a
\* recipient only to one whose balance covers amount plus fee.
C33_EarliestViolationReported ==
    [][\A p \in Procs :
          LET r == proc'[p]
          IN (/\ Free(p) /\ nreq' = nreq + 1 /\ r.route = "transfer"
              /\ r.res \in {"InsufficientBalance", "RecipientNotFound"})
             => (/\ r.amount > 0
                 /\ pins[r.user] = Hash(r.pin)
                 /\ r.res = "RecipientNotFound"
                       => ~(balance[r.user] < r.amount + Fee))]_vars

\* C34: the webhook accepts a request exactly when its signature is the keyed
\* hash, under the shared secret, of the raw bytes received: a request is
\* dispatched (not answered "Invalid signature") if and only if its slot is not
\* among those whose signature differs from that hash.
C34_AcceptedIffSignedRawBytes ==
    [][\A p \in Procs :
          (/\ Free(p) /\ nreq' = nreq + 1
           /\ proc'[p].route \in WebhookRoutes)
          => (proc'[p].res # "InvalidSignature" <=> p \notin unverified')]_vars

\* The sum of all account balances.
TotalBalance(b) == b["A"] + b["B"]

\* C35: the commit of an on-platform transfer of a positive amount never lets
\* the sum of all balances grow, and when the recipient is the sender itself the
\* sender's balance after the commit is at most the balance before.
C35_TransferNeverCreatesMoney ==
    [][\A p \in Procs :
          LET r == proc[p]
          IN (/\ r.route = "transfer" /\ r.pc = "commit"
              /\ proc'[p].pc = "done" /\ proc'[p].res = "ok"
              /\ r.amount > 0)
             => (/\ TotalBalance(balance') <= TotalBalance(balance)
                 /\ r.rcpt = r.user => balance'[r.user] <= balance[r.user])]_vars

\* C36: only an administrator confirms a bank-transfer deposit: a step of a
\* confirm request whose caller is not an administrator (the owner of the
\* deposit included) changes no record and no balance.
C36_OnlyAdminConfirms ==
    [][\A p \in Procs :
          (/\ proc[p].route = "bankTransferConfirm"
           /\ proc[p].pc # "done" /\ proc'[p] # proc[p]
           /\ proc[p].caller \notin Admins)
          => (txs' = txs /\ balance' = balance)]_vars

\* C37: the refund that the handler of transfer.failed saves for a record that
\* was debited amount plus fee at creation (a bank transfer or a withdrawal of
\* a positive amount) restores the whole debit: the owner's balance, unchanged
\* since the handler read it, grows by the record's amount plus its fee.
C37_FailedDebitRefundedInFull ==
    [][\A p \in Procs :
          LET r == proc[p]
              t == TxOf(r.ref)
          IN (/\ r.route = "handleFailedTransfer" /\ r.pc = "saveUser"
              /\ proc'[p].pc = "done"
              /\ t.transactionType \in {"send", "withdraw"}
              /\ t.fee > 0 /\ t.amount > 0
              /\ r.st0 = "successful"
              /\ applied[r.ref] = 0
              /\ r.ubal = balance[r.user])
             => balance'[r.user] = balance[r.user] + t.amount + t.fee]_vars

\* C38: a cancel request whose caller owns no pending deposit under the named
\* reference (the record is another user's, is not a deposit, is not pending or
\* does not exist) is answered not-found at once, changing no record and no
\* balance; and whatever a cancel request does later leaves every balance and
\* every record that is not the caller's own under that reference as it was.
C38_CancelOnlyOwnPendingDeposit ==
    [][\A p \in Procs :
          LET r == proc'[p]
              own == \E t \in txs : /\ t.reference = r.ref /\ t.userId = r.user
                                    /\ t.transactionType = "deposit"
                                    /\ t.status = "pending"
          IN /\ (/\ Free(p) /\ nreq' = nreq + 1
                 /\ r.route = "bankTransferCancel" /\ ~own)
                => (/\ r.pc = "done" /\ r.res = "NotFound"
                    /\ txs' = txs /\ balance' = balance)
             /\ (/\ proc[p].route = "bankTransferCancel" /\ proc[p].pc # "done"
                 /\ proc'[p] # proc[p])
                => (/\ balance' = balance
                    /\ \A t \in txs :
                          (t.reference # proc[p].ref \/ t.userId # proc[p].user)
                          => t \in txs')]_vars

\* A cancel by a user who does not own the pending deposit it names was answered
\* not-found; the deposit is still pending and no balance has moved.
C38_Witness ==
    \E p \in Procs, t \in txs :
        /\ proc[p].route = "bankTransferCancel" /\ proc[p].pc = "done"
        /\ proc[p].res = "NotFound"
        /\ t.reference = proc[p].ref /\ t.userId # proc[p].user
        /\ t.transactionType = "deposit" /\ t.status = "pending"
        /\ \A u \in Users : balance[u] = 0

\* C39: a step of the deposit endpoint or of confirm-deposit that increases a
\* balance credits a charge of the payment provider: the request's reference is
\* the reference of a provider charge and the amount of the body is the amount
\* of that charge.
C39_CreditBackedByProviderCharge ==
    [][\A p \in Procs :
          (/\ proc[p].route \in {"deposit", "confirmDeposit"}
           /\ proc[p].pc = "commit" /\ proc'[p] # proc[p]
           /\ \E u \in Users : balance'[u] > balance[u])
          => (/\ proc[p].ref \in ChargeRefs
              /\ proc[p].amount = amountInNaira(Charge(proc[p].ref).amount))]_vars

====
